---- MODULE Spec2Model ----
(***************************************************************************)
(* Model of the patch engine of src/src/patcher.py: apply_patch(file_path, *)
(* patch_info) run as a linear pipeline of gates over a small filesystem.  *)
(* Bytes are naturals, byte strings are sequences of bytes, text is a      *)
(* sequence of code points, paths are sequences of path fragments.         *)
(***************************************************************************)
EXTENDS Naturals, Integers, Sequences, FiniteSets

VARIABLES
    fs,             \* the files on disk: path -> [exists, data]
    patch_info,     \* the selected descriptor: [description, target, replacement]
    pc,             \* position of apply_patch: "idle", a gate name, or "done"
    file_path,      \* argument of the running / last call
    original_data,  \* buffer read from file_path
    patched_data,   \* buffer produced by the substitution
    result,         \* outcome kind of the running / last call
    ret,            \* value returned by apply_patch: "none", "True", "False", "raise"
    gates,          \* gates evaluated by the running / last call, in order
    iolog,          \* file operations of the running / last call, in order
    fs0,            \* history: the files on disk when the call started
    prev            \* history: [path, result] of the call before this one

vars == <<fs, patch_info, pc, file_path, original_data, patched_data,
          result, ret, gates, iolog, fs0, prev>>

----------------------------------------------------------------------------
(* Bounds of the model *)

MaxFileLen == 4
MaxPatLen == 2
MaxLabelLen == 1

(* The byte values files and patterns are built from, and the code points  *)
(* labels are built from (one of them outside ASCII).                      *)
Byte == {65, 66}
CodePoint == {65, 233}

SeqsUpTo(S, n) == UNION {[1..k -> S] : k \in 0..n}

BaseName == <<"lib.so">>
PatchedSuffix == <<".patched">>

\* the paths a call may be given: the library and the output of patching it
InputPaths == {BaseName, BaseName \o PatchedSuffix}
Paths == InputPaths \cup {p \o PatchedSuffix : p \in InputPaths}

NoFile == [exists |-> FALSE, data |-> <<>>]
File(d) == [exists |-> TRUE, data |-> d]

----------------------------------------------------------------------------
(* bytes / str primitives used by apply_patch *)

\* sub occurs in data at 1-based position i
MatchesAt(data, sub, i) ==
    /\ i >= 1
    /\ i + Len(sub) - 1 <= Len(data)
    /\ \A k \in 1..Len(sub) : data[i + k - 1] = sub[k]

\* bytes.find(sub, start): lowest position >= start where sub occurs, 0 if none
Find(data, sub, start) ==
    LET hits == {i \in start..(Len(data) + 1) : MatchesAt(data, sub, i)}
    IN  IF hits = {} THEN 0
        ELSE CHOOSE i \in hits : \A j \in hits : i <= j

\* mutant: a test of the prefix (startswith) in place of `in`
Contains_PrefixOnly(sub, data) == MatchesAt(data, sub, 1)

\* `sub in data`
Contains(sub, data) == Find(data, sub, 1) # 0

RECURSIVE CountFrom(_, _, _)
CountFrom(data, sub, start) ==
    LET i == Find(data, sub, start)
    IN  IF i = 0 THEN 0 ELSE 1 + CountFrom(data, sub, i + Len(sub))

\* mutant: presence (find) in place of the number of occurrences
Count_FindOnly(data, sub) == IF Find(data, sub, 1) = 0 THEN 0 ELSE 1

\* bytes.count(sub): non-overlapping occurrences, scanning left to right;
\* the empty pattern is counted len(data) + 1 times
Count(data, sub) ==
    IF Len(sub) = 0 THEN Len(data) + 1 ELSE CountFrom(data, sub, 1)

\* mutant: the tail is resumed one byte too late
Replace1_OffByOne(data, old, new) ==
    LET i == Find(data, old, 1)
    IN  IF i = 0 THEN data
        ELSE SubSeq(data, 1, i - 1) \o new
             \o SubSeq(data, i + Len(old) + 1, Len(data))

\* bytes.replace(old, new, 1): the leftmost occurrence only
Replace1(data, old, new) ==
    LET i == Find(data, old, 1)
    IN  IF i = 0 THEN data
        ELSE SubSeq(data, 1, i - 1) \o new \o SubSeq(data, i + Len(old), Len(data))

\* str.encode('ascii') succeeds only on code points below 128 and then
\* yields one byte per code point, of the same value
IsAscii(s) == \A i \in 1..Len(s) : s[i] < 128
Encode(s) == [i \in 1..Len(s) |-> s[i] % 256]

\* mutant: the output overwrites the input in place
OutputPath_InPlace(p) == p

OutputPath(p) == p \o PatchedSuffix

----------------------------------------------------------------------------
(* Initial state: any descriptor, any library file (or none), possibly a   *)
(* stale file at the output path.                                          *)

Init ==
    /\ patch_info \in [description : SeqsUpTo(CodePoint, MaxLabelLen),
                       target      : SeqsUpTo(Byte, MaxPatLen),
                       replacement : SeqsUpTo(Byte, MaxPatLen)]
    /\ \E a \in {NoFile} \cup {File(d) : d \in SeqsUpTo(Byte, MaxFileLen)},
          b \in {NoFile, File(<<66>>)} :
          fs = [p \in Paths |->
                  IF p = BaseName THEN a
                  ELSE IF p = OutputPath(BaseName) THEN b
                  ELSE NoFile]
    /\ pc = "idle"
    /\ file_path = BaseName
    /\ original_data = <<>>
    /\ patched_data = <<>>
    /\ result = "none"
    /\ ret = "none"
    /\ gates = <<>>
    /\ iolog = <<>>
    /\ fs0 = fs
    /\ prev = [path |-> <<>>, result |-> "none"]

----------------------------------------------------------------------------
(* apply_patch *)

Stop(kind, value) ==
    /\ pc' = "done"
    /\ result' = kind
    /\ ret' = value

\* main(): apply_patch(args.so_file, selected_patch) on the fixed descriptor
Call(p) ==
    /\ pc \in {"idle", "done"}
    /\ pc' = "parity"
    /\ file_path' = p
    /\ prev' = [path |-> IF pc = "idle" THEN <<>> ELSE file_path, result |-> result]
    /\ original_data' = <<>>
    /\ patched_data' = <<>>
    /\ result' = "none"
    /\ ret' = "none"
    /\ gates' = <<>>
    /\ iolog' = <<>>
    /\ fs0' = fs
    /\ UNCHANGED <<fs, patch_info>>

\* mutant: the lengths are never compared
LengthParityGate_NoCheck ==
    /\ pc = "parity"
    /\ gates' = Append(gates, "length-parity")
    /\ pc' = "read"
    /\ UNCHANGED <<result, ret>>
    /\ UNCHANGED <<fs, patch_info, file_path, original_data, patched_data,
                   iolog, fs0, prev>>

LengthParityGate ==
    /\ pc = "parity"
    /\ gates' = Append(gates, "length-parity")
    /\ IF Len(patch_info.target) # Len(patch_info.replacement)
       THEN Stop("InvalidDescriptor", "False")
       ELSE /\ pc' = "read"
            /\ UNCHANGED <<result, ret>>
    /\ UNCHANGED <<fs, patch_info, file_path, original_data, patched_data,
                   iolog, fs0, prev>>

\* open(file_path, 'rb') and f.read(): a missing file and any I/O error stop
FileReadGate ==
    /\ pc = "read"
    /\ gates' = Append(gates, "file-read")
    /\ \/ /\ fs[file_path].exists
          /\ iolog' = iolog \o <<<<"open_rb", file_path>>, <<"read", file_path>>,
                                 <<"close", file_path>>>>
          /\ original_data' = fs[file_path].data
          /\ pc' = "version"
          /\ UNCHANGED <<result, ret>>
       \/ /\ iolog' = Append(iolog, <<"open_rb", file_path>>)
          /\ Stop("FileUnreadable", "False")
          /\ UNCHANGED original_data
    /\ UNCHANGED <<fs, patch_info, file_path, patched_data, fs0, prev>>

\* mutant: a missing version string is reported but does not stop
VersionMarkerGate_NoStop ==
    /\ pc = "version"
    /\ gates' = Append(gates, "version-marker")
    /\ IF ~IsAscii(patch_info.description)
       THEN Stop("UnicodeEncodeError", "raise")
       ELSE /\ pc' = "idempotence"
            /\ UNCHANGED <<result, ret>>
    /\ UNCHANGED <<fs, patch_info, file_path, original_data, patched_data,
                   iolog, fs0, prev>>

VersionMarkerGate ==
    /\ pc = "version"
    /\ gates' = Append(gates, "version-marker")
    /\ IF ~IsAscii(patch_info.description)
       THEN Stop("UnicodeEncodeError", "raise")
       ELSE IF ~Contains(Encode(patch_info.description), original_data)
       THEN Stop("VersionMismatch", "False")
       ELSE /\ pc' = "idempotence"
            /\ UNCHANGED <<result, ret>>
    /\ UNCHANGED <<fs, patch_info, file_path, original_data, patched_data,
                   iolog, fs0, prev>>

\* mutant: the already-patched check is missing
IdempotenceGate_Skipped ==
    /\ pc = "idempotence"
    /\ gates' = Append(gates, "idempotence")
    /\ pc' = "count"
    /\ UNCHANGED <<result, ret>>
    /\ UNCHANGED <<fs, patch_info, file_path, original_data, patched_data,
                   iolog, fs0, prev>>

IdempotenceGate ==
    /\ pc = "idempotence"
    /\ gates' = Append(gates, "idempotence")
    /\ IF Contains(patch_info.replacement, original_data)
       THEN Stop("AlreadyPatched", "True")
       ELSE /\ pc' = "count"
            /\ UNCHANGED <<result, ret>>
    /\ UNCHANGED <<fs, patch_info, file_path, original_data, patched_data,
                   iolog, fs0, prev>>

OccurrenceCountGate ==
    /\ pc = "count"
    /\ gates' = Append(gates, "occurrence-count")
    /\ LET occurrence_count == Count(original_data, patch_info.target)
       IN  IF occurrence_count = 0
           THEN Stop("PatternNotFound", "False")
           ELSE IF occurrence_count > 1
           THEN Stop("AmbiguousMatch", "False")
           ELSE /\ pc' = "substitution"
                /\ UNCHANGED <<result, ret>>
    /\ UNCHANGED <<fs, patch_info, file_path, original_data, patched_data,
                   iolog, fs0, prev>>

Substitution ==
    /\ pc = "substitution"
    /\ gates' = Append(gates, "substitution")
    /\ patched_data' = Replace1(original_data, patch_info.target,
                                patch_info.replacement)
    /\ IF patched_data' = original_data
       THEN Stop("NoEffectiveChange", "False")
       ELSE /\ pc' = "persistence"
            /\ UNCHANGED <<result, ret>>
    /\ UNCHANGED <<fs, patch_info, file_path, original_data, iolog, fs0, prev>>

\* open(output_path, 'wb') creates or truncates the file; f.write may fail
\* after any proper prefix of the buffer has reached the disk
Persistence ==
    /\ pc = "persistence"
    /\ gates' = Append(gates, "persistence")
    /\ LET output_path == OutputPath(file_path)
       IN  \/ /\ iolog' = Append(iolog, <<"open_wb", output_path>>)
              /\ Stop("OutputWriteFailed", "False")
              /\ UNCHANGED fs
           \/ /\ iolog' = iolog \o <<<<"open_wb", output_path>>,
                                    <<"write", output_path>>,
                                    <<"close", output_path>>>>
              /\ fs' = [fs EXCEPT ![output_path] = File(patched_data)]
              /\ Stop("Success", "True")
           \/ \E k \in 0..(Len(patched_data) - 1) :
                 /\ iolog' = iolog \o <<<<"open_wb", output_path>>,
                                       <<"close", output_path>>>>
                 /\ fs' = [fs EXCEPT ![output_path] =
                              File(SubSeq(patched_data, 1, k))]
                 /\ Stop("OutputWriteFailed", "False")
    /\ UNCHANGED <<patch_info, file_path, original_data, patched_data, fs0, prev>>

Next ==
    \/ \E p \in InputPaths : Call(p)
    \/ LengthParityGate
    \/ FileReadGate
    \/ VersionMarkerGate
    \/ IdempotenceGate
    \/ OccurrenceCountGate
    \/ Substitution
    \/ Persistence

Spec == Init /\ [][Next]_vars

----------------------------------------------------------------------------
(* Vocabulary of the properties, stated on byte strings directly and not   *)
(* through the primitives the engine calls.                                *)

Done == pc = "done"
InCall == pc # "idle"

Target == patch_info.target
Replacement == patch_info.replacement
Label == patch_info.description

\* the bytes of the file given to the call, as they were when it started
InputData == fs0[file_path].data
OutputFile == fs[OutputPath(file_path)]

\* the 1-based offsets at which sub matches data, overlapping ones included
MatchOffsets(sub, data) ==
    {i \in 1..(Len(data) + 1) :
        /\ i + Len(sub) - 1 <= Len(data)
        /\ SubSeq(data, i, i + Len(sub) - 1) = sub}

OccursIn(sub, data) == MatchOffsets(sub, data) # {}

\* two occurrences that do not overlap each other
TwoDisjointMatches(sub, data) ==
    \E i, j \in MatchOffsets(sub, data) : i < j /\ i + Len(sub) <= j

\* exactly one occurrence once overlapping ones are merged: what a
\* non-overlapping count reports as 1
CountedOnce(sub, data) == OccursIn(sub, data) /\ ~TwoDisjointMatches(sub, data)

EqualLength == Len(Target) = Len(Replacement)

\* the call had an equal-length descriptor with an ASCII label and read its file
ValidAndRead ==
    /\ Done
    /\ EqualLength
    /\ IsAscii(Label)
    /\ result # "FileUnreadable"

\* a descriptor as the catalog holds them: a label, a non-empty target and
\* a replacement that differs from it
OrdinaryDescriptor ==
    /\ Len(Label) > 0
    /\ Len(Target) > 0
    /\ Target # Replacement

GateOrder == <<"length-parity", "file-read", "version-marker", "idempotence",
               "occurrence-count", "substitution", "persistence">>

\* the position in GateOrder of the gate that produces an outcome
StopGate(kind) ==
    CASE kind = "InvalidDescriptor" -> 1
      [] kind = "FileUnreadable" -> 2
      [] kind \in {"VersionMismatch", "UnicodeEncodeError"} -> 3
      [] kind = "AlreadyPatched" -> 4
      [] kind \in {"PatternNotFound", "AmbiguousMatch"} -> 5
      [] kind = "NoEffectiveChange" -> 6
      [] OTHER -> 7

WriteCompleted == \E i \in 1..Len(iolog) : iolog[i][1] = "write"

\* what the ordered gates decide for a buffer
Decided(data) ==
    IF ~OccursIn(Encode(Label), data) THEN {"VersionMismatch"}
    ELSE IF OccursIn(Replacement, data) THEN {"AlreadyPatched"}
    ELSE IF ~OccursIn(Target, data) THEN {"PatternNotFound"}
    ELSE IF TwoDisjointMatches(Target, data) THEN {"AmbiguousMatch"}
    ELSE {"Success", "OutputWriteFailed"}

----------------------------------------------------------------------------
\* C1: the gates run in the fixed order length-parity, file-read,
\* version-marker, idempotence, occurrence-count, substitution, persistence,
\* and the first gate that stops decides the outcome: with an equal-length
\* descriptor and a file that was read, VersionMismatch if the label is
\* absent, else AlreadyPatched if the replacement occurs, else
\* PatternNotFound if the target does not occur, else AmbiguousMatch if it
\* is counted more than once, else Success exactly when the write completes;
\* no gate is evaluated after the one that stopped.
C1_FirstStoppingGateDecides ==
    /\ gates = SubSeq(GateOrder, 1, Len(gates))
    /\ Done => Len(gates) = StopGate(result)
    /\ ValidAndRead =>
          /\ result \in Decided(InputData)
          /\ (result = "Success") = WriteCompleted

C1_Witness ==
    /\ ValidAndRead
    /\ result = "VersionMismatch"
    /\ OccursIn(Target, InputData)
    /\ OccursIn(Replacement, InputData)
    /\ Len(Target) > 0

\* C2: on Success the written file has the length of the input, equals the
\* input outside the leftmost target occurrence and holds the replacement
\* inside it.
C2_OutputDiffersOnlyInRange ==
    (Done /\ result = "Success") =>
        /\ OutputFile.exists
        /\ OccursIn(Target, InputData)
        /\ LET out == OutputFile.data
               at == CHOOSE i \in MatchOffsets(Target, InputData) :
                        \A j \in MatchOffsets(Target, InputData) : i <= j
           IN  /\ Len(out) = Len(InputData)
               /\ \A k \in 1..Len(InputData) :
                     IF k >= at /\ k < at + Len(Target)
                     THEN out[k] = Replacement[k - at + 1]
                     ELSE out[k] = InputData[k]

C2_Witness ==
    /\ Done
    /\ result = "Success"
    /\ Len(InputData) > Len(Target)
    /\ InputData[1] # Target[1]

\* C3: with len(target) # len(replacement) the call returns
\* InvalidDescriptor (False) after the length-parity gate alone: no file is
\* opened or read, nothing is written; and in every call no file operation
\* happens before the length-parity gate has passed.
C3_InvalidDescriptorBeforeAnyIO ==
    /\ (InCall /\ ~EqualLength) =>
          /\ iolog = <<>>
          /\ fs = fs0
          /\ Done => (result = "InvalidDescriptor" /\ ret = "False")
    /\ iolog # <<>> => (EqualLength /\ Len(gates) >= 2)

C3_Witness ==
    /\ Done
    /\ result = "InvalidDescriptor"
    /\ fs[file_path].exists
    /\ OccursIn(Encode(Label), InputData)

\* C4: every outcome other than Success leaves every file as it was before
\* the call, OutputWriteFailed included.
C4_FailureLeavesFilesystemUntouched ==
    (Done /\ result # "Success" /\ OrdinaryDescriptor) => fs = fs0

\* C5: the file at file_path is only opened for reading and is unchanged
\* after every outcome; the only path opened for writing is
\* file_path + ".patched", which differs from file_path; the read handle is
\* closed before the output is opened.
C5_OriginalOnlyRead ==
    InCall =>
        /\ fs[file_path] = fs0[file_path]
        /\ OutputPath(file_path) # file_path
        /\ \A p \in Paths : p # OutputPath(file_path) => fs[p] = fs0[p]
        /\ \A i \in 1..Len(iolog) :
              /\ iolog[i][2] = file_path =>
                    iolog[i][1] \in {"open_rb", "read", "close"}
              /\ iolog[i][1] \in {"open_wb", "write"} =>
                    /\ iolog[i][2] = OutputPath(file_path)
                    /\ \E j \in 1..(i - 1) : iolog[j] = <<"close", file_path>>

C5_Witness ==
    /\ Done
    /\ result \in {"Success", "OutputWriteFailed"}
    /\ fs # fs0
    /\ fs0[OutputPath(file_path)].exists

\* the call before this one succeeded and this one is given its output
SecondRunOnFreshOutput ==
    /\ Done
    /\ prev.result = "Success"
    /\ file_path = OutputPath(prev.path)
    /\ result # "FileUnreadable"

\* C6 (as stated): applying the same descriptor to the output of a
\* successful run returns AlreadyPatched and writes nothing.
C6_SecondRunAlreadyPatched ==
    SecondRunOnFreshOutput =>
        /\ result = "AlreadyPatched"
        /\ fs = fs0

\* C6 (amended): applying the same descriptor to the output of a successful
\* run writes nothing and returns AlreadyPatched when the label still occurs
\* in the output; when the substitution overwrote the only occurrence of the
\* label it stops at the version-marker gate with VersionMismatch.
C6_SecondRunStopsBeforeWriting ==
    SecondRunOnFreshOutput =>
        /\ fs = fs0
        /\ OccursIn(Replacement, InputData)
        /\ IF OccursIn(Encode(Label), InputData)
           THEN result = "AlreadyPatched" /\ ret = "True" /\ Len(gates) = 4
           ELSE result = "VersionMismatch" /\ ret = "False" /\ Len(gates) = 3

C6_Witness ==
    /\ SecondRunOnFreshOutput
    /\ result = "AlreadyPatched"
    /\ Len(Target) > 0

\* the call had an equal-length descriptor with an ASCII label and read a
\* file that holds the replacement pattern
ReadFileWithReplacement ==
    /\ ValidAndRead
    /\ OccursIn(Replacement, InputData)

\* C7 (as stated): every file that already contains the replacement pattern
\* gives AlreadyPatched (True) and no output file (stated for ordinary
\* descriptors; the degenerate ones do not make it truer).
C7_ReplacementPresentAlreadyPatched ==
    (ReadFileWithReplacement /\ OrdinaryDescriptor) =>
        /\ result = "AlreadyPatched"
        /\ ret = "True"
        /\ fs = fs0

\* C7 (amended): every file that contains the label and already contains
\* the replacement pattern gives AlreadyPatched (True) and no output file;
\* without the label the outcome is VersionMismatch.
C7_LabelAndReplacementAlreadyPatched ==
    ReadFileWithReplacement =>
        /\ fs = fs0
        /\ iolog = <<<<"open_rb", file_path>>, <<"read", file_path>>,
                     <<"close", file_path>>>>
        /\ IF OccursIn(Encode(Label), InputData)
           THEN result = "AlreadyPatched" /\ ret = "True"
           ELSE result = "VersionMismatch" /\ ret = "False"

C7_Witness ==
    /\ ReadFileWithReplacement
    /\ result = "AlreadyPatched"
    /\ Len(Replacement) > 0
    /\ OccursIn(Target, InputData)
    /\ Target # Replacement

\* the call had an equal-length descriptor with an ASCII label and read a
\* file that holds the label and two occurrences of the target that do not
\* overlap
ReadFileWithTwoTargets ==
    /\ ValidAndRead
    /\ OccursIn(Encode(Label), InputData)
    /\ TwoDisjointMatches(Target, InputData)

\* C8 (as stated): a file with the label and two or more occurrences of the
\* target gives AmbiguousMatch and no output file (stated for ordinary
\* descriptors and occurrences that do not overlap).
C8_TwoTargetsAmbiguous ==
    (ReadFileWithTwoTargets /\ OrdinaryDescriptor) =>
        /\ result = "AmbiguousMatch"
        /\ fs = fs0

\* C8 (amended): a file with the label and two or more non-overlapping
\* occurrences of the target is never patched; the outcome is AmbiguousMatch
\* (False) when the replacement does not occur in the file and
\* AlreadyPatched when it does.
C8_TwoTargetsNeverPatched ==
    ReadFileWithTwoTargets =>
        /\ fs = fs0
        /\ ~WriteCompleted
        /\ IF OccursIn(Replacement, InputData)
           THEN result = "AlreadyPatched"
           ELSE result = "AmbiguousMatch" /\ ret = "False"

C8_Witness ==
    /\ ReadFileWithTwoTargets
    /\ OrdinaryDescriptor
    /\ result = "AmbiguousMatch"
    /\ Len(Target) > 1

\* C9: NoEffectiveChange never occurs: once the substitution step has run
\* (label present, replacement absent, target counted once) the new buffer
\* differs from the original one.
C9_NoEffectiveChangeUnreachable ==
    /\ result # "NoEffectiveChange"
    /\ Len(gates) >= 6 =>
          /\ patched_data # original_data
          /\ ~OccursIn(Replacement, original_data)
          /\ CountedOnce(Target, original_data)

C9_Witness ==
    /\ pc = "persistence"
    /\ Len(gates) = 6
    /\ patched_data # original_data

\* C10: whenever an output file is written, the target matches the input
\* buffer at exactly one offset, overlapping matches included.
C10_WrittenOnlyOnUniqueOffset ==
    (Done /\ WriteCompleted /\ OrdinaryDescriptor) =>
        Cardinality(MatchOffsets(Target, InputData)) = 1

====
